---- MODULE Spec2Model ----
(***************************************************************************)
(* Model of the synthahol-dx7 crate: the DX7 32-voice bank reader          *)
(* (read.rs), the preset data model and its normalization (lib.rs,         *)
(* envelope.rs), format sniffing (format.rs) and the routing table         *)
(* (algorithms.rs).                                                        *)
(*                                                                         *)
(* Bytes are integers 0..255.  Rust arrays and slices are sequences; a     *)
(* Rust index k is the sequence index k + 1.                               *)
(***************************************************************************)
EXTENDS Integers, Sequences, FiniteSets, TLC

VARIABLES
    op,         \* which operation this run performs
    source,     \* the byte source handed to the operation, by its description
    pos,        \* bytes of input consumed so far by the reader
    pc,         \* position inside the operation; where it returned, once it has
    body_at,    \* Bank::read: where in the source the body array was read from (-1 before)
    presets,    \* Bank::read: the local Vec<Preset>
    arg,        \* the argument of checksum, normalize and the routing queries
    edits,      \* normalize: how many fields of arg were overwritten
    result      \* the operation's return value ([kind |-> "none"] before)

vars == <<op, source, pos, pc, body_at, presets, arg, edits, result>>

----------------------------------------------------------------------------
(* Bit arithmetic on u8 / i8                                               *)

RECURSIVE BitAndBits(_, _)
\* a & b on non-negative integers, bit by bit
BitAndBits(a, b) ==
    IF a = 0 \/ b = 0 THEN 0
    ELSE (a % 2) * (b % 2) + 2 * BitAndBits(a \div 2, b \div 2)

\* a & b for every pair of bytes, computed once
BitAndTable == [a \in 0..255 |-> [b \in 0..255 |-> BitAndBits(a, b)]]

\* a & b on u8
BitAnd(a, b) == BitAndTable[a][b]

RECURSIVE Shr(_, _)
\* a >> n
Shr(a, n) == IF n = 0 THEN a ELSE Shr(a \div 2, n - 1)

\* u8::wrapping_sub
wrapping_sub(a, b) == (a - b) % 256

\* Ord::clamp
clamp(x, lo, hi) == IF x < lo THEN lo ELSE IF x > hi THEN hi ELSE x

\* slice[from..to] with Rust's 0-based, end-exclusive bounds
Slice(s, from, to) == SubSeq(s, from + 1, to)

----------------------------------------------------------------------------
(* lib.rs / format.rs constants                                            *)

SYSEX_HEADER == <<240, 67, 0, 9, 32, 0>>

FORMAT_IDENTIFIER == SYSEX_HEADER

BODY_LEN == 4096

CHUNK_LEN == 128

END_OF_SYSEX == 247

OPERATOR_COUNT == 6

OPERATOR_LEN == 17

SEGMENT_COUNT == 4

MAX_LENGTH == 10

----------------------------------------------------------------------------
(* read.rs: checksum                                                       *)

RECURSIVE FoldSub(_, _, _, _)
\* data[lo..=hi].iter().fold(sum, |sum, c| sum.wrapping_sub(*c)), the bytes
\* taken in order.  The range is split in two and the accumulator is looked
\* at before descending, so that the evaluation depth stays logarithmic in
\* the length; the accumulator is a u8, so the first branch is never taken.
FoldSub(data, lo, hi, sum) ==
    IF sum \notin 0..255 THEN sum
    ELSE IF lo > hi THEN sum
    ELSE IF lo = hi THEN wrapping_sub(sum, data[lo])
    ELSE LET mid == (lo + hi) \div 2
         IN  FoldSub(data, mid + 1, hi, FoldSub(data, lo, mid, sum))

\* mutant of checksum: the mask is forgotten
checksum_Unmasked(data) == FoldSub(data, 1, Len(data), 0)

checksum(data) == BitAnd(FoldSub(data, 1, Len(data), 0), 127)

----------------------------------------------------------------------------
(* envelope.rs                                                             *)

Envelope_from_rate_and_level(rate, level) ==
    [rates  |-> [i \in 1..SEGMENT_COUNT |-> rate],
     levels |-> [i \in 1..SEGMENT_COUNT |-> level]]

\* Option<Envelope>: [some |-> FALSE] is None
Envelope_try_from_rates_and_levels(rates, levels) ==
    IF Len(rates) = SEGMENT_COUNT /\ Len(levels) = SEGMENT_COUNT
    THEN [some |-> TRUE, value |-> [rates |-> rates, levels |-> levels]]
    ELSE [some |-> FALSE]

Envelope_normalize(e) ==
    [rates  |-> [i \in 1..Len(e.rates)  |-> clamp(e.rates[i], 0, 99)],
     levels |-> [i \in 1..Len(e.levels) |-> clamp(e.levels[i], 0, 99)]]

Envelope_default == [rates |-> <<99, 99, 99, 99>>, levels |-> <<99, 99, 99, 99>>]

----------------------------------------------------------------------------
(* lib.rs: PresetName, Waveform, Operator, Preset                          *)

\* the closure of from_lossy's map: strip the high bit, keep printable ASCII
LossyChar(c) ==
    LET m == BitAnd(c, 127)
    IN  IF 32 <= m /\ m < 127 THEN m ELSE 32

RECURSIVE TrimEnd(_)
\* str::trim_end on a string of ASCII 0x20..0x7E: only the space is white
TrimEnd(s) ==
    IF s # <<>> /\ s[Len(s)] = 32 THEN TrimEnd(SubSeq(s, 1, Len(s) - 1)) ELSE s

\* mutant of PresetName_from_lossy: trailing spaces are trimmed before the
\* name is cut to MAX_LENGTH
PresetName_from_lossy_TrimFirst(data) ==
    LET mapped  == [i \in 1..Len(data) |-> LossyChar(data[i])]
        trimmed == TrimEnd(mapped)
    IN  SubSeq(trimmed, 1, IF Len(trimmed) < MAX_LENGTH THEN Len(trimmed) ELSE MAX_LENGTH)

\* a name is the sequence of its character codes
PresetName_from_lossy(data) ==
    LET mapped == [i \in 1..Len(data) |-> LossyChar(data[i])]
        ascii  == SubSeq(mapped, 1, IF Len(mapped) < MAX_LENGTH THEN Len(mapped) ELSE MAX_LENGTH)
    IN  TrimEnd(ascii)

\* "INIT VOICE"
PresetName_default == <<73, 78, 73, 84, 32, 86, 79, 73, 67, 69>>

\* mutant of Waveform_try_from: an unknown code is coerced to Triangle
Waveform_try_from_Coerced(value) ==
    CASE value = 1 -> [ok |-> TRUE, value |-> "SawDown"]
      [] value = 2 -> [ok |-> TRUE, value |-> "SawUp"]
      [] value = 3 -> [ok |-> TRUE, value |-> "Square"]
      [] value = 4 -> [ok |-> TRUE, value |-> "Sine"]
      [] value = 5 -> [ok |-> TRUE, value |-> "SampleAndHold"]
      [] OTHER     -> [ok |-> TRUE, value |-> "Triangle"]

Waveform_try_from(value) ==
    CASE value = 0 -> [ok |-> TRUE, value |-> "Triangle"]
      [] value = 1 -> [ok |-> TRUE, value |-> "SawDown"]
      [] value = 2 -> [ok |-> TRUE, value |-> "SawUp"]
      [] value = 3 -> [ok |-> TRUE, value |-> "Square"]
      [] value = 4 -> [ok |-> TRUE, value |-> "Sine"]
      [] value = 5 -> [ok |-> TRUE, value |-> "SampleAndHold"]
      [] OTHER     -> [ok |-> FALSE, error |-> "InvalidWaveform"]

\* mutant of Operator_normalize: detune is negated back before it is clamped
Operator_normalize_NegatedDetune(o) ==
    [o EXCEPT
        !.scaling_break_point    = clamp(@, 0, 99),
        !.scaling_left_depth     = clamp(@, 0, 99),
        !.scaling_right_depth    = clamp(@, 0, 99),
        !.scaling_left_curve     = clamp(@, 0, 3),
        !.scaling_right_curve    = clamp(@, 0, 3),
        !.detune                 = clamp(0 - @, 0, 14),
        !.rate_scaling           = clamp(@, 0, 7),
        !.velocity_sensitivity   = clamp(@, 0, 7),
        !.modulation_sensitivity = clamp(@, 0, 3),
        !.output_level           = clamp(@, 0, 99),
        !.frequency_course       = clamp(@, 0, 31),
        !.frequency_fine         = clamp(@, 0, 99)]

Operator_normalize(o) ==
    [o EXCEPT
        !.scaling_break_point    = clamp(@, 0, 99),
        !.scaling_left_depth     = clamp(@, 0, 99),
        !.scaling_right_depth    = clamp(@, 0, 99),
        !.scaling_left_curve     = clamp(@, 0, 3),
        !.scaling_right_curve    = clamp(@, 0, 3),
        !.detune                 = clamp(@, 0, 14),
        !.rate_scaling           = clamp(@, 0, 7),
        !.velocity_sensitivity   = clamp(@, 0, 7),
        !.modulation_sensitivity = clamp(@, 0, 3),
        !.output_level           = clamp(@, 0, 99),
        !.frequency_course       = clamp(@, 0, 31),
        !.frequency_fine         = clamp(@, 0, 99)]

Operator_default ==
    [envelope               |-> [Envelope_default EXCEPT !.levels[SEGMENT_COUNT] = 0],
     scaling_break_point    |-> 39,
     scaling_left_depth     |-> 0,
     scaling_right_depth    |-> 0,
     scaling_left_curve     |-> 0,
     scaling_right_curve    |-> 0,
     detune                 |-> 0,
     rate_scaling           |-> 0,
     velocity_sensitivity   |-> 0,
     modulation_sensitivity |-> 0,
     output_level           |-> 0,
     mode                   |-> "Fixed",
     frequency_course       |-> 1,
     frequency_fine         |-> 0]

\* mutant of Preset_normalize: the LFO speed is clamped to the algorithm's range
Preset_normalize_SpeedBound(p) ==
    [name                      |-> p.name,
     operators                 |-> [k \in 1..Len(p.operators) |-> Operator_normalize(p.operators[k])],
     pitch_envelope            |-> Envelope_normalize(p.pitch_envelope),
     algorithm_id              |-> clamp(p.algorithm_id, 0, 31),
     oscillator_key_sync       |-> p.oscillator_key_sync,
     feedback_level            |-> clamp(p.feedback_level, 0, 7),
     lfo_speed                 |-> clamp(p.lfo_speed, 0, 31),
     lfo_delay                 |-> clamp(p.lfo_delay, 0, 99),
     lfo_pitch_mod_depth       |-> clamp(p.lfo_pitch_mod_depth, 0, 99),
     lfo_pitch_mod_sensitivity |-> clamp(p.lfo_pitch_mod_sensitivity, 0, 99),
     lfo_amplitude_mod_depth   |-> clamp(p.lfo_amplitude_mod_depth, 0, 99),
     lfo_waveform              |-> p.lfo_waveform,
     lfo_key_sync              |-> p.lfo_key_sync,
     transpose                 |-> clamp(p.transpose, 0, 48)]

Preset_normalize(p) ==
    [name                      |-> p.name,
     operators                 |-> [k \in 1..Len(p.operators) |-> Operator_normalize(p.operators[k])],
     pitch_envelope            |-> Envelope_normalize(p.pitch_envelope),
     algorithm_id              |-> clamp(p.algorithm_id, 0, 31),
     oscillator_key_sync       |-> p.oscillator_key_sync,
     feedback_level            |-> clamp(p.feedback_level, 0, 7),
     lfo_speed                 |-> clamp(p.lfo_speed, 0, 99),
     lfo_delay                 |-> clamp(p.lfo_delay, 0, 99),
     lfo_pitch_mod_depth       |-> clamp(p.lfo_pitch_mod_depth, 0, 99),
     lfo_pitch_mod_sensitivity |-> clamp(p.lfo_pitch_mod_sensitivity, 0, 99),
     lfo_amplitude_mod_depth   |-> clamp(p.lfo_amplitude_mod_depth, 0, 99),
     lfo_waveform              |-> p.lfo_waveform,
     lfo_key_sync              |-> p.lfo_key_sync,
     transpose                 |-> clamp(p.transpose, 0, 48)]

Preset_default ==
    [name                      |-> PresetName_default,
     operators                 |-> [k \in 1..OPERATOR_COUNT |->
                                      IF k = 1 THEN [Operator_default EXCEPT !.output_level = 99]
                                               ELSE Operator_default],
     pitch_envelope            |-> Envelope_from_rate_and_level(99, 50),
     algorithm_id              |-> 0,
     oscillator_key_sync       |-> TRUE,
     feedback_level            |-> 0,
     lfo_speed                 |-> 35,
     lfo_delay                 |-> 0,
     lfo_pitch_mod_depth       |-> 0,
     lfo_pitch_mod_sensitivity |-> 3,
     lfo_amplitude_mod_depth   |-> 0,
     lfo_waveform              |-> "Triangle",
     lfo_key_sync              |-> TRUE,
     transpose                 |-> 24]

----------------------------------------------------------------------------
(* read.rs: the body of the `for packed_preset in body.chunks(128)` loop   *)

\* one pass of the inner loop: the operator built from record operator_index
DecodeOperator(packed_preset, operator_index) ==
    LET packed_operator == Slice(packed_preset, operator_index * OPERATOR_LEN,
                                 (operator_index + 1) * OPERATOR_LEN)
        rates    == Slice(packed_operator, 0, 4)
        levels   == Slice(packed_operator, Len(rates), Len(rates) + 4)
        envelope == Envelope_try_from_rates_and_levels(rates, levels).value
    IN  [envelope               |-> envelope,
         scaling_break_point    |-> packed_operator[9],
         scaling_left_depth     |-> packed_operator[10],
         scaling_right_depth    |-> packed_operator[11],
         scaling_left_curve     |-> BitAnd(packed_operator[12], 3),
         scaling_right_curve    |-> Shr(BitAnd(packed_operator[12], 12), 2),
         detune                 |-> 0 - Shr(BitAnd(packed_operator[13], 120), 3),
         rate_scaling           |-> BitAnd(packed_operator[13], 7),
         velocity_sensitivity   |-> Shr(BitAnd(packed_operator[14], 28), 2),
         modulation_sensitivity |-> BitAnd(packed_operator[14], 3),
         output_level           |-> packed_operator[15],
         mode                   |-> IF BitAnd(packed_operator[16], 1) = 0 THEN "Fixed" ELSE "Ratio",
         frequency_course       |-> Shr(BitAnd(packed_operator[16], 62), 1),
         frequency_fine         |-> packed_operator[17]]

\* mutant of DecodeOperators: the array is left in physical order
DecodeOperators_Unreversed(packed_preset) ==
    [k \in 1..OPERATOR_COUNT |-> DecodeOperator(packed_preset, k - 1)]

\* the operator array after the inner loop and operators.reverse()
DecodeOperators(packed_preset) ==
    LET filled == [k \in 1..OPERATOR_COUNT |-> DecodeOperator(packed_preset, k - 1)]
    IN  [k \in 1..OPERATOR_COUNT |-> filled[OPERATOR_COUNT + 1 - k]]

\* the loop body: Ok(normalized preset) or the error `?` returns
DecodePreset(packed_preset) ==
    LET name       == PresetName_from_lossy(Slice(packed_preset, 118, 127))
        operators  == DecodeOperators(packed_preset)
        pitch_env_rates_base  == 102
        rates      == Slice(packed_preset, pitch_env_rates_base, pitch_env_rates_base + 4)
        pitch_env_levels_base == pitch_env_rates_base + Len(rates)
        levels     == Slice(packed_preset, pitch_env_levels_base, pitch_env_levels_base + Len(rates))
        pitch_envelope == Envelope_try_from_rates_and_levels(rates, levels).value
        lfo_waveform   == Waveform_try_from(Shr(BitAnd(packed_preset[117], 14), 1))
    IN  IF ~lfo_waveform.ok
        THEN [ok |-> FALSE, error |-> lfo_waveform.error]
        ELSE [ok |-> TRUE,
              preset |-> Preset_normalize(
                [name                      |-> name,
                 operators                 |-> operators,
                 pitch_envelope            |-> pitch_envelope,
                 algorithm_id              |-> packed_preset[111],
                 oscillator_key_sync       |-> Shr(BitAnd(packed_preset[112], 8), 4) = 1,
                 feedback_level            |-> BitAnd(packed_preset[112], 7),
                 lfo_speed                 |-> packed_preset[113],
                 lfo_delay                 |-> packed_preset[114],
                 lfo_pitch_mod_depth       |-> packed_preset[115],
                 lfo_amplitude_mod_depth   |-> packed_preset[116],
                 lfo_pitch_mod_sensitivity |-> Shr(BitAnd(packed_preset[117], 112), 4),
                 lfo_waveform              |-> lfo_waveform.value,
                 lfo_key_sync              |-> BitAnd(packed_preset[117], 1) = 1,
                 transpose                 |-> packed_preset[118]])]

\* body.chunks(128): number of chunks and the i-th chunk (0-based)
ChunkCount(data) == (Len(data) + CHUNK_LEN - 1) \div CHUNK_LEN

Chunk(data, i) ==
    Slice(data, i * CHUNK_LEN,
          IF (i + 1) * CHUNK_LEN < Len(data) THEN (i + 1) * CHUNK_LEN ELSE Len(data))

\* Format::is_format: header.starts_with(&FORMAT_IDENTIFIER)
Format_is_format(header) ==
    /\ Len(header) >= Len(FORMAT_IDENTIFIER)
    /\ SubSeq(header, 1, Len(FORMAT_IDENTIFIER)) = FORMAT_IDENTIFIER

----------------------------------------------------------------------------
(* algorithms.rs                                                           *)

Op1 == "Op1"

Op2 == "Op2"

Op3 == "Op3"

Op4 == "Op4"

Op5 == "Op5"

Op6 == "Op6"

Amplifier == "Amplifier"

\* Option<T>
None == [some |-> FALSE]

Some(v) == [some |-> TRUE, value |-> v]

Output_is_operator(output) == output # Amplifier

Output_from(operator_id) ==
    CASE operator_id = 0 -> Some(Op1)
      [] operator_id = 1 -> Some(Op2)
      [] operator_id = 2 -> Some(Op3)
      [] operator_id = 3 -> Some(Op4)
      [] operator_id = 4 -> Some(Op5)
      [] operator_id = 5 -> Some(Op6)
      [] OTHER           -> None

\* each entry is an Algorithm's routing_by_operator
ALGORITHMS ==
    <<
        <<<<Amplifier>>, <<Op1>>, <<Amplifier>>, <<Op3>>, <<Op4>>, <<Op5, Op6>>>>,  \* 1
        <<<<Amplifier>>, <<Op1, Op2>>, <<Amplifier>>, <<Op3>>, <<Op4>>, <<Op5>>>>,  \* 2
        <<<<Amplifier>>, <<Op1>>, <<Op2>>, <<Amplifier>>, <<Op4>>, <<Op5, Op6>>>>,  \* 3
        <<<<Amplifier>>, <<Op1>>, <<Op2>>, <<Amplifier>>, <<Op4>>, <<Op5, Amplifier>>>>,  \* 4
        <<<<Amplifier>>, <<Op1>>, <<Amplifier>>, <<Op3>>, <<Amplifier>>, <<Op5, Op6>>>>,  \* 5
        <<<<Amplifier>>, <<Op1>>, <<Amplifier>>, <<Op3>>, <<Amplifier>>, <<Op5, Amplifier>>>>,  \* 6
        <<<<Amplifier>>, <<Op1>>, <<Amplifier>>, <<Op3>>, <<Op3>>, <<Op5, Op6>>>>,  \* 7
        <<<<Amplifier>>, <<Op1>>, <<Amplifier>>, <<Op3, Op4>>, <<Op3>>, <<Op5>>>>,  \* 8
        <<<<Amplifier>>, <<Op1, Op2>>, <<Amplifier>>, <<Op3>>, <<Op3>>, <<Op5>>>>,  \* 9
        <<<<Amplifier>>, <<Op1>>, <<Op2, Op3>>, <<Amplifier>>, <<Op4>>, <<Op4>>>>,  \* 10
        <<<<Amplifier>>, <<Op1>>, <<Op2>>, <<Amplifier>>, <<Op4>>, <<Op4, Op6>>>>,  \* 11
        <<<<Amplifier>>, <<Op1, Op2>>, <<Amplifier>>, <<Op3>>, <<Op3>>, <<Op3>>>>,  \* 12
        <<<<Amplifier>>, <<Op1>>, <<Amplifier>>, <<Op3>>, <<Op3>>, <<Op3, Op6>>>>,  \* 13
        <<<<Amplifier>>, <<Op1>>, <<Amplifier>>, <<Op3>>, <<Op4>>, <<Op4, Op6>>>>,  \* 14
        <<<<Amplifier>>, <<Op1, Op2>>, <<Amplifier>>, <<Op3>>, <<Op4>>, <<Op4>>>>,  \* 15
        <<<<Amplifier>>, <<Op1>>, <<Op1>>, <<Op3>>, <<Op1>>, <<Op5, Op6>>>>,  \* 16
        <<<<Amplifier>>, <<Op1, Op2>>, <<Op1>>, <<Op3>>, <<Op1>>, <<Op5>>>>,  \* 17
        <<<<Amplifier>>, <<Op1>>, <<Op1, Op3>>, <<Op1>>, <<Op4>>, <<Op5>>>>,  \* 18
        <<<<Amplifier>>, <<Op1>>, <<Op2>>, <<Amplifier>>, <<Amplifier>>, <<Op4, Op5, Op6>>>>,  \* 19
        <<<<Amplifier>>, <<Amplifier>>, <<Op1, Op2, Op3>>, <<Amplifier>>, <<Op4>>, <<Op4>>>>,  \* 20
        <<<<Amplifier>>, <<Amplifier>>, <<Op1, Op2, Op3>>, <<Amplifier>>, <<Amplifier>>, <<Op4, Op5>>>>,  \* 21
        <<<<Amplifier>>, <<Op1>>, <<Amplifier>>, <<Amplifier>>, <<Amplifier>>, <<Op3, Op4, Op5, Op6>>>>,  \* 22
        <<<<Amplifier>>, <<Amplifier>>, <<Op2>>, <<Amplifier>>, <<Amplifier>>, <<Op4, Op5, Op6>>>>,  \* 23
        <<<<Amplifier>>, <<Amplifier>>, <<Amplifier>>, <<Amplifier>>, <<Amplifier>>, <<Op3, Op4, Op5, Op6>>>>,  \* 24
        <<<<Amplifier>>, <<Amplifier>>, <<Amplifier>>, <<Amplifier>>, <<Amplifier>>, <<Op4, Op5, Op6>>>>,  \* 25
        <<<<Amplifier>>, <<Amplifier>>, <<Op2>>, <<Amplifier>>, <<Op4>>, <<Op4, Op6>>>>,  \* 26
        <<<<Amplifier>>, <<Amplifier>>, <<Op2, Op3>>, <<Amplifier>>, <<Op4>>, <<Op4>>>>,  \* 27
        <<<<Amplifier>>, <<Op1>>, <<Amplifier>>, <<Op3>>, <<Op4, Op5>>, <<Amplifier>>>>,  \* 28
        <<<<Amplifier>>, <<Amplifier>>, <<Amplifier>>, <<Op3>>, <<Amplifier>>, <<Op5, Op6>>>>,  \* 29
        <<<<Amplifier>>, <<Amplifier>>, <<Amplifier>>, <<Op3>>, <<Op4, Op5>>, <<Amplifier>>>>,  \* 30
        <<<<Amplifier>>, <<Amplifier>>, <<Amplifier>>, <<Amplifier>>, <<Amplifier>>, <<Op5, Op6>>>>,  \* 31
        <<<<Amplifier>>, <<Amplifier>>, <<Amplifier>>, <<Amplifier>>, <<Amplifier>>, <<Amplifier, Op6>>>>  \* 32
    >>

ALGORITHMS_COUNT == Len(ALGORITHMS)

\* slice::get
Get(s, i) == IF 0 <= i /\ i < Len(s) THEN Some(s[i + 1]) ELSE None

Algorithms_get(id) == Get(ALGORITHMS, id)

\* mutant of Algorithm_routing: the operator id is taken as 1-based
Algorithm_routing_OneBased(algorithm, operator_id) == Get(algorithm, operator_id - 1)

\* mutant of Algorithm_routing: the slots are counted from the far end
Algorithm_routing_Reversed(algorithm, operator_id) == Get(algorithm, 5 - operator_id)

Algorithm_routing(algorithm, operator_id) == Get(algorithm, operator_id)

\* mutant of Algorithm_is_carrier: any route to the amplifier counts
Algorithm_is_carrier_AnyAmplifier(algorithm, operator_id) ==
    LET routing == Algorithm_routing(algorithm, operator_id)
    IN  routing.some /\ \E i \in 1..Len(routing.value) : routing.value[i] = Amplifier

Algorithm_is_carrier(algorithm, operator_id) ==
    LET routing == Algorithm_routing(algorithm, operator_id)
    IN  routing = Some(<<Amplifier>>)

\* vec.contains
Contains(s, x) == \E i \in 1..Len(s) : s[i] = x

\* mutant of Algorithm_is_feedback: a route to any operator counts
Algorithm_is_feedback_AnyOperator(algorithm, operator_id) ==
    LET routing == Algorithm_routing(algorithm, operator_id)
    IN  routing.some /\ \E i \in 1..Len(routing.value) : Output_is_operator(routing.value[i])

Algorithm_is_feedback(algorithm, operator_id) ==
    LET output  == Output_from(operator_id)
        routing == Algorithm_routing(algorithm, operator_id)
    IN  IF output.some /\ routing.some THEN Contains(routing.value, output.value) ELSE FALSE

----------------------------------------------------------------------------
(* Byte sources handed to the operations                                   *)

\* number of distinct base banks, less one
MaxSeed == 1

\* number of bytes that may follow the terminator
MaxTrailing == 1

\* raw values written over one body byte
PatchValues == {0, 45, 200, 255}

\* slots in which one byte is overwritten
PatchSlots == {31}

\* byte o of slot s of base bank `seed`; byte 116 carries a defined waveform code
BaseByte(seed, s, o) ==
    IF o = 116
    THEN 16 * ((s + seed) % 8) + 2 * ((s + seed) % 6) + (s % 2)
    ELSE (seed * 53 + s * 37 + o * 11 + ((s * o) % 7)) % 256

BaseBody(seed) ==
    [k \in 1..BODY_LEN |-> BaseByte(seed, (k - 1) \div CHUNK_LEN, (k - 1) % CHUNK_LEN)]

RECURSIVE SumBytes(_, _, _)
SumBytes(data, lo, hi) ==
    IF lo > hi THEN 0
    ELSE IF lo = hi THEN data[lo]
    ELSE LET mid == (lo + hi) \div 2
         IN  SumBytes(data, lo, mid) + SumBytes(data, mid + 1, hi)

\* the base banks, each with the sum of its bytes
BaseBanks ==
    [seed \in 0..MaxSeed |->
        LET data == BaseBody(seed)
        IN  [data |-> data, sum |-> SumBytes(data, 1, BODY_LEN)]]

NoPatch == [slot |-> -1, offset |-> 0, value |-> 0]

PatchIndex(patch) == patch.slot * CHUNK_LEN + patch.offset + 1

\* the body with the patch applied
PatchedBody(seed, patch) ==
    IF patch.slot < 0 THEN BaseBanks[seed].data
    ELSE [BaseBanks[seed].data EXCEPT ![PatchIndex(patch)] = patch.value]

\* the checksum byte of the file layout, (0 - sum of the body bytes) mod 128,
\* for the patched body
LayoutChecksum(seed, patch) ==
    IF patch.slot < 0 THEN (0 - BaseBanks[seed].sum) % 128
    ELSE (0 - (BaseBanks[seed].sum - BaseBanks[seed].data[PatchIndex(patch)] + patch.value)) % 128

HeaderVariants == {SYSEX_HEADER, <<241, 67, 0, 9, 32, 0>>, <<240, 67, 0, 9, 32, 1>>}

\* offsets added to the layout checksum: right, off by one, top bit set
ChecksumDeltas == {0, 1, 128}

TerminatorVariants == {END_OF_SYSEX, 0, 119}

BANK_LEN == Len(SYSEX_HEADER) + BODY_LEN + 2

\* header, body, checksum byte, terminator, then `trailing` zero bytes
BankBytes(header, seed, patch, delta, terminator, trailing) ==
    header \o PatchedBody(seed, patch)
           \o <<(LayoutChecksum(seed, patch) + delta) % 256, terminator>>
           \o [i \in 1..trailing |-> 0]

Prefix(s, n) == SubSeq(s, 1, n)

\* the bytes of a described source: the first `length` bytes of the bank
Bytes(src) ==
    Prefix(BankBytes(src.header, src.seed, src.patch, src.delta, src.terminator, src.trailing),
           src.length)

Described(header, seed, patch, delta, terminator, trailing, length) ==
    [header |-> header, seed |-> seed, patch |-> patch, delta |-> delta,
     terminator |-> terminator, trailing |-> trailing, length |-> length]

\* a well-formed bank around the patched body
ValidBank(seed, patch) ==
    Described(SYSEX_HEADER, seed, patch, 0, END_OF_SYSEX, 0, BANK_LEN)

\* a patch that puts an undefined waveform code into byte 116 of a slot
WaveformPatches == {[slot |-> s, offset |-> 116, value |-> 45] : s \in {0, 1, 31}}

\* a prefix of a valid bank, the whole bank included
TruncatedInput(src) ==
    \E seed \in 0..MaxSeed, n \in 0..BANK_LEN :
        src = [ValidBank(seed, NoPatch) EXCEPT !.length = n]

\* a combination of header, checksum byte and terminator, followed by up to
\* MaxTrailing bytes or (n = -1) cut before the terminator
ContainerInput(src) ==
    \E h \in HeaderVariants, seed \in 0..MaxSeed, patch \in {NoPatch} \cup WaveformPatches,
       d \in ChecksumDeltas, t \in TerminatorVariants, n \in (-1)..MaxTrailing :
        src = Described(h, seed, patch, d, t, IF n < 0 THEN 0 ELSE n, BANK_LEN + n)

\* a well-formed container around a body with one byte overwritten
PatchedInput(src) ==
    \E s \in PatchSlots, o \in 0..(CHUNK_LEN - 1), v \in PatchValues :
        src = ValidBank(0, [slot |-> s, offset |-> o, value |-> v])

\* the bytes the source yields
input == Bytes(source)

----------------------------------------------------------------------------
(* Bank::read, one action per stage                                        *)

NoResult == [kind |-> "none"]

\* the body array: the BODY_LEN bytes read_exact copied from the source
body == Slice(input, body_at, body_at + BODY_LEN)

Err(e) == [kind |-> "Err", error |-> e]

\* reader.read_exact(&mut buf) with buf of n bytes: can it be satisfied
CanRead(n) == Len(input) - pos >= n

\* the operation has returned
Returned == result # NoResult

\* mutant of Truncated: a short read goes unnoticed and the zeroed buffer is
\* then rejected as data
Truncated_AsInvalidData ==
    /\ result' = Err("InvalidHeader")
    /\ pos' = Len(input)
    /\ pc' = pc

\* read_exact failed: UnexpectedEof is returned by `?`, the source is drained
Truncated ==
    /\ result' = Err("TruncatedInput")
    /\ pos' = Len(input)
    /\ pc' = pc

InitRead ==
    /\ op = "read"
    /\ (TruncatedInput(source) \/ ContainerInput(source) \/ PatchedInput(source))
    /\ pos = 0
    /\ pc = "header"
    /\ body_at = -1
    /\ presets = <<>>
    /\ arg = <<>>
    /\ edits = 0
    /\ result = NoResult

InitIsFormat ==
    /\ op = "is_format"
    /\ (TruncatedInput(source) \/ ContainerInput(source))
    /\ pos = 0
    /\ pc = "call"
    /\ body_at = -1
    /\ presets = <<>>
    /\ arg = <<>>
    /\ edits = 0
    /\ result = NoResult

ReadHeader ==
    /\ op = "read" /\ pc = "header" /\ ~Returned
    /\ UNCHANGED <<op, source, body_at, presets, arg, edits>>
    /\ IF ~CanRead(Len(SYSEX_HEADER)) THEN Truncated
       ELSE /\ pos' = pos + Len(SYSEX_HEADER)
            /\ IF Slice(input, pos, pos + Len(SYSEX_HEADER)) # SYSEX_HEADER
               THEN result' = Err("InvalidHeader") /\ pc' = pc
               ELSE result' = result /\ pc' = "body"

ReadBody ==
    /\ op = "read" /\ pc = "body" /\ ~Returned
    /\ UNCHANGED <<op, source, presets, arg, edits>>
    /\ IF ~CanRead(BODY_LEN) THEN Truncated /\ body_at' = body_at
       ELSE /\ pos' = pos + BODY_LEN
            /\ body_at' = pos
            /\ result' = result
            /\ pc' = "checksum"

\* mutant of ReadChecksum: the stored byte is masked before the comparison
ReadChecksum_MaskedStored ==
    /\ op = "read" /\ pc = "checksum" /\ ~Returned
    /\ UNCHANGED <<op, source, body_at, presets, arg, edits>>
    /\ IF ~CanRead(1) THEN Truncated
       ELSE LET expected_checksum == BitAnd(input[pos + 1], 127)
                computed_checksum == checksum(body)
            IN  /\ pos' = pos + 1
                /\ IF computed_checksum # expected_checksum
                   THEN /\ result' = [kind |-> "Err", error |-> "ChecksumMismatch",
                                      expected |-> expected_checksum,
                                      computed |-> computed_checksum]
                        /\ pc' = pc
                   ELSE result' = result /\ pc' = "terminator"

ReadChecksum ==
    /\ op = "read" /\ pc = "checksum" /\ ~Returned
    /\ UNCHANGED <<op, source, body_at, presets, arg, edits>>
    /\ IF ~CanRead(1) THEN Truncated
       ELSE LET expected_checksum == input[pos + 1]
                computed_checksum == checksum(body)
            IN  /\ pos' = pos + 1
                /\ IF computed_checksum # expected_checksum
                   THEN /\ result' = [kind |-> "Err", error |-> "ChecksumMismatch",
                                      expected |-> expected_checksum,
                                      computed |-> computed_checksum]
                        /\ pc' = pc
                   ELSE result' = result /\ pc' = "terminator"

\* mutant of ReadTerminator: the byte is read and not looked at
ReadTerminator_Unchecked ==
    /\ op = "read" /\ pc = "terminator" /\ ~Returned
    /\ UNCHANGED <<op, source, body_at, presets, arg, edits>>
    /\ IF ~CanRead(1) THEN Truncated
       ELSE /\ pos' = pos + 1
            /\ result' = result
            /\ pc' = "presets"

ReadTerminator ==
    /\ op = "read" /\ pc = "terminator" /\ ~Returned
    /\ UNCHANGED <<op, source, body_at, presets, arg, edits>>
    /\ IF ~CanRead(1) THEN Truncated
       ELSE /\ pos' = pos + 1
            /\ IF input[pos + 1] # END_OF_SYSEX
               THEN result' = Err("MissingTerminator") /\ pc' = pc
               ELSE result' = result /\ pc' = "presets"

\* mutant of DecodeNextPreset: a slot that fails ends the loop with what was
\* decoded so far
DecodeNextPreset_PartialOnError ==
    /\ op = "read" /\ pc = "presets" /\ ~Returned
    /\ Len(presets) < ChunkCount(body)
    /\ UNCHANGED <<op, source, pos, pc, body_at, arg, edits>>
    /\ LET decoded == DecodePreset(Chunk(body, Len(presets)))
       IN  IF decoded.ok
           THEN /\ presets' = Append(presets, decoded.preset)
                /\ result' = result
           ELSE /\ presets' = presets
                /\ result' = [kind |-> "Ok", presets |-> presets]

\* one iteration of `for packed_preset in body.chunks(128)`
DecodeNextPreset ==
    /\ op = "read" /\ pc = "presets" /\ ~Returned
    /\ Len(presets) < ChunkCount(body)
    /\ UNCHANGED <<op, source, pos, pc, body_at, arg, edits>>
    /\ LET decoded == DecodePreset(Chunk(body, Len(presets)))
       IN  IF decoded.ok
           THEN /\ presets' = Append(presets, decoded.preset)
                /\ result' = result
           ELSE /\ presets' = presets
                /\ result' = Err(decoded.error)

\* the loop is exhausted: Ok(presets)
ReturnPresets ==
    /\ op = "read" /\ pc = "presets" /\ ~Returned
    /\ Len(presets) = ChunkCount(body)
    /\ UNCHANGED <<op, source, pos, pc, body_at, presets, arg, edits>>
    /\ result' = [kind |-> "Ok", presets |-> presets]

\* Format::is_format on the bytes of the source
IsFormat ==
    /\ op = "is_format" /\ pc = "call" /\ ~Returned
    /\ UNCHANGED <<op, source, pos, pc, body_at, presets, arg, edits>>
    /\ result' = [kind |-> "Bool", value |-> Format_is_format(input)]

Init == InitRead \/ InitIsFormat

Next ==
    \/ ReadHeader
    \/ ReadBody
    \/ ReadChecksum
    \/ ReadTerminator
    \/ DecodeNextPreset
    \/ ReturnPresets
    \/ IsFormat

Spec == Init /\ [][Next]_vars

----------------------------------------------------------------------------
(* checksum as a function of its argument                                  *)

\* longest byte sequence handed to checksum
MaxLen == 5

\* the bytes the sequences are built from
ChecksumBytes == {1, 2, 3, 4, 5, 42, 255}

\* the variables Bank::read alone uses
ReaderIdle ==
    /\ source = ValidBank(0, NoPatch)
    /\ pos = 0
    /\ body_at = -1
    /\ presets = <<>>

InitChecksum ==
    /\ op = "checksum"
    /\ pc = "build"
    /\ arg = <<>>
    /\ edits = 0
    /\ result = NoResult
    /\ ReaderIdle

\* the caller extends the slice by one byte
PushByte ==
    /\ op = "checksum" /\ pc = "build"
    /\ Len(arg) < MaxLen
    /\ \E c \in ChecksumBytes : arg' = Append(arg, c)
    /\ UNCHANGED <<op, source, pos, pc, body_at, presets, edits, result>>

CallChecksum ==
    /\ op = "checksum" /\ pc = "build"
    /\ result' = checksum(arg)
    /\ pc' = "called"
    /\ UNCHANGED <<op, source, pos, body_at, presets, arg, edits>>

NextChecksum == PushByte \/ CallChecksum

SpecChecksum == InitChecksum /\ [][NextChecksum]_vars

----------------------------------------------------------------------------
(* Preset::normalize as a function of its argument                         *)

\* number of fields of the default preset that are overwritten
MaxEdits == 2

\* the operators and envelope segments (1-based) that are overwritten
EditedOperators == {1, OPERATOR_COUNT}

EditedSegments == {1, SEGMENT_COUNT}

PresetByteFields ==
    {"feedback_level", "lfo_speed", "lfo_delay", "lfo_pitch_mod_depth",
     "lfo_pitch_mod_sensitivity", "lfo_amplitude_mod_depth", "transpose"}

OperatorByteFields ==
    {"scaling_break_point", "scaling_left_depth", "scaling_right_depth",
     "scaling_left_curve", "scaling_right_curve", "rate_scaling",
     "velocity_sensitivity", "modulation_sensitivity", "output_level",
     "frequency_course", "frequency_fine"}

EnvelopeFields == {"rates", "levels"}

\* the presets one overwritten field away from p: any u8 field set to 255,
\* detune below and above its range, the algorithm above 31, and the fields
\* normalize copies set to another value
EditedPresets(p) ==
    {[p EXCEPT ![f] = 255] : f \in PresetByteFields}
    \cup {[p EXCEPT !.algorithm_id = 45],
          [p EXCEPT !.name = <<65, 32>>],
          [p EXCEPT !.oscillator_key_sync = FALSE],
          [p EXCEPT !.lfo_key_sync = FALSE],
          [p EXCEPT !.lfo_waveform = "Sine"]}
    \cup {[p EXCEPT !.pitch_envelope[f][i] = 255] : f \in EnvelopeFields, i \in EditedSegments}
    \cup {[p EXCEPT !.operators[k][f] = 255] : k \in EditedOperators, f \in OperatorByteFields}
    \cup {[p EXCEPT !.operators[k].detune = d] : k \in EditedOperators, d \in {-7, 15}}
    \cup {[p EXCEPT !.operators[k].mode = "Ratio"] : k \in EditedOperators}
    \cup {[p EXCEPT !.operators[k].envelope[f][i] = 255] :
            k \in EditedOperators, f \in EnvelopeFields, i \in EditedSegments}

InitNormalize ==
    /\ op = "normalize"
    /\ pc = "build"
    /\ arg = Preset_default
    /\ edits = 0
    /\ result = NoResult
    /\ ReaderIdle

\* the caller overwrites one field of the preset
EditPreset ==
    /\ op = "normalize" /\ pc = "build"
    /\ edits < MaxEdits
    /\ arg' \in EditedPresets(arg)
    /\ edits' = edits + 1
    /\ UNCHANGED <<op, source, pos, pc, body_at, presets, result>>

\* preset.normalize()
Normalize ==
    /\ op = "normalize" /\ pc = "build"
    /\ result' = Preset_normalize(arg)
    /\ pc' = "normalized"
    /\ UNCHANGED <<op, source, pos, body_at, presets, arg, edits>>

\* the returned preset is normalized again
NormalizeAgain ==
    /\ op = "normalize" /\ pc = "normalized"
    /\ arg' = result
    /\ result' = Preset_normalize(result)
    /\ pc' = "renormalized"
    /\ UNCHANGED <<op, source, pos, body_at, presets, edits>>

NextNormalize == EditPreset \/ Normalize \/ NormalizeAgain

SpecNormalize == InitNormalize /\ [][NextNormalize]_vars

----------------------------------------------------------------------------
(* the routing table queries                                               *)

\* largest algorithm id and operator id asked for
MaxAlgorithmId == 32

MaxOperatorId == 7

InitAlgorithms ==
    /\ op \in {"routing", "is_carrier", "is_feedback"}
    /\ pc = "call"
    /\ \E id \in 0..MaxAlgorithmId, operator_id \in 0..MaxOperatorId :
        arg = [algorithm_id |-> id, operator_id |-> operator_id]
    /\ edits = 0
    /\ result = NoResult
    /\ ReaderIdle

\* Algorithms::get(id).map(|algorithm| algorithm.routing(operator_id))
Routing ==
    /\ op = "routing" /\ pc = "call" /\ ~Returned
    /\ LET algorithm == Algorithms_get(arg.algorithm_id)
       IN  result' = IF algorithm.some
                     THEN Some(Algorithm_routing(algorithm.value, arg.operator_id))
                     ELSE None
    /\ UNCHANGED <<op, source, pos, pc, body_at, presets, arg, edits>>

\* Algorithms::get(id).map(|algorithm| algorithm.is_carrier(operator_id))
IsCarrier ==
    /\ op = "is_carrier" /\ pc = "call" /\ ~Returned
    /\ LET algorithm == Algorithms_get(arg.algorithm_id)
       IN  result' = IF algorithm.some
                     THEN Some(Algorithm_is_carrier(algorithm.value, arg.operator_id))
                     ELSE None
    /\ UNCHANGED <<op, source, pos, pc, body_at, presets, arg, edits>>

\* Algorithms::get(id).map(|algorithm| algorithm.is_feedback(operator_id))
IsFeedback ==
    /\ op = "is_feedback" /\ pc = "call" /\ ~Returned
    /\ LET algorithm == Algorithms_get(arg.algorithm_id)
       IN  result' = IF algorithm.some
                     THEN Some(Algorithm_is_feedback(algorithm.value, arg.operator_id))
                     ELSE None
    /\ UNCHANGED <<op, source, pos, pc, body_at, presets, arg, edits>>

NextAlgorithms == Routing \/ IsCarrier \/ IsFeedback

SpecAlgorithms == InitAlgorithms /\ [][NextAlgorithms]_vars

----------------------------------------------------------------------------
(* PresetName::from_lossy as a function of its argument                    *)

\* number of bytes the caller appends to a stem
MaxTail == 3

\* the appended bytes: a control byte, space, 'A', DEL, 'A' and '~' with the
\* high bit set
NameBytes == {7, 32, 65, 127, 193, 254}

\* what the slices start with: nothing, "ABC\x07def", "abcdefghi"
NameStems ==
    {<<>>,
     <<65, 66, 67, 7, 100, 101, 102>>,
     <<97, 98, 99, 100, 101, 102, 103, 104, 105>>}

InitFromLossy ==
    /\ op = "from_lossy"
    /\ pc = "build"
    /\ arg \in NameStems
    /\ edits = 0
    /\ result = NoResult
    /\ ReaderIdle

\* the caller extends the slice by one byte
PushNameByte ==
    /\ op = "from_lossy" /\ pc = "build"
    /\ edits < MaxTail
    /\ \E c \in NameBytes : arg' = Append(arg, c)
    /\ edits' = edits + 1
    /\ UNCHANGED <<op, source, pos, pc, body_at, presets, result>>

FromLossy ==
    /\ op = "from_lossy" /\ pc = "build"
    /\ result' = PresetName_from_lossy(arg)
    /\ pc' = "called"
    /\ UNCHANGED <<op, source, pos, body_at, presets, arg, edits>>

NextFromLossy == PushNameByte \/ FromLossy

SpecFromLossy == InitFromLossy /\ [][NextFromLossy]_vars

----------------------------------------------------------------------------
(* What the file layout says about a byte sequence, stated on the bytes    *)
(* alone: the reference the claims about Bank::read are checked against   *)

HeaderOf(bytes) == SubSeq(bytes, 1, 6)

BodyOf(bytes) == SubSeq(bytes, 7, 4102)

\* the 128 bytes of slot i (0..31)
SlotOf(bytes, i) == SubSeq(bytes, 6 + 128 * i + 1, 6 + 128 * i + 128)

StoredChecksum(bytes) == bytes[4103]

StoredTerminator(bytes) == bytes[4104]

\* (0 - sum of the body bytes) mod 128
LayoutChecksumOf(bytes) == (0 - SumBytes(bytes, 7, 4102)) % 128

\* the LFO waveform code of slot i: bits 1..3 of its byte 116
WaveformCode(bytes, i) == (bytes[6 + 128 * i + 116 + 1] \div 2) % 8

WaveformNames == <<"Triangle", "SawDown", "SawUp", "Square", "Sine", "SampleAndHold">>

\* header, checksum and terminator are all there and right
ContainerValid(bytes) ==
    /\ Len(bytes) >= 4104
    /\ HeaderOf(bytes) = <<240, 67, 0, 9, 32, 0>>
    /\ StoredChecksum(bytes) = LayoutChecksumOf(bytes)
    /\ StoredTerminator(bytes) = 247

\* the stage at which decoding the bytes stops, and how
FirstFailure(bytes) ==
    CASE Len(bytes) < 6 -> <<"header", "TruncatedInput">>
      [] Len(bytes) >= 6 /\ HeaderOf(bytes) # <<240, 67, 0, 9, 32, 0>> -> <<"header", "InvalidHeader">>
      [] OTHER ->
        CASE Len(bytes) < 4102 -> <<"body", "TruncatedInput">>
          [] Len(bytes) = 4102 -> <<"checksum", "TruncatedInput">>
          [] Len(bytes) >= 4103 /\ StoredChecksum(bytes) # LayoutChecksumOf(bytes) ->
                <<"checksum", "ChecksumMismatch">>
          [] OTHER ->
            CASE Len(bytes) = 4103 -> <<"terminator", "TruncatedInput">>
              [] Len(bytes) >= 4104 /\ StoredTerminator(bytes) # 247 ->
                    <<"terminator", "MissingTerminator">>
              [] OTHER ->
                    IF \E i \in 0..31 : WaveformCode(bytes, i) >= 6
                    THEN <<"presets", "InvalidWaveform">>
                    ELSE <<"presets", "Ok">>

ReadReturned == op = "read" /\ Returned

\* where and how Bank::read returned
Outcome == <<pc, IF result.kind = "Err" THEN result.error ELSE result.kind>>

IsErr(e) == result.kind = "Err" /\ result.error = e

----------------------------------------------------------------------------
(* The claims                                                              *)

\* C1: Bank::read returns either an error that carries no presets or exactly
\* 32 presets, preset i being what the slot decoder makes of body bytes
\* [128*i, 128*i + 128) and of nothing else; no other length is returned,
\* also when a later slot fails after earlier ones were decoded.
C1_AllOrNothing ==
    ReadReturned =>
        \/ result.kind = "Err" /\ "presets" \notin DOMAIN result
        \/ /\ result.kind = "Ok"
           /\ Len(result.presets) = 32
           /\ \A i \in 0..31 :
                LET decoded == DecodePreset(SlotOf(input, i))
                IN  decoded.ok /\ result.presets[i + 1] = decoded.preset

\* C1 witness: the last slot failed after 31 slots had been decoded
C1_Witness ==
    /\ ReadReturned
    /\ IsErr("InvalidWaveform")
    /\ Len(presets) = 31

\* C2: Bank::read checks header, body read, checksum, terminator and then
\* the slots in this order and returns the error of the first stage that
\* fails: a wrong header gives InvalidHeader whatever follows, a wrong
\* terminator gives MissingTerminator whenever header and checksum pass,
\* whatever the slots hold.
C2_FirstFailingStage ==
    ReadReturned =>
        LET bytes == input
        IN  /\ Outcome = FirstFailure(bytes)
            /\ (Len(bytes) >= 6 /\ HeaderOf(bytes) # <<240, 67, 0, 9, 32, 0>>)
                    => IsErr("InvalidHeader")
            /\ (/\ Len(bytes) >= 4104
                /\ HeaderOf(bytes) = <<240, 67, 0, 9, 32, 0>>
                /\ StoredChecksum(bytes) = LayoutChecksumOf(bytes)
                /\ StoredTerminator(bytes) # 247)
                    => IsErr("MissingTerminator")

\* C2 witness: the terminator is wrong and a slot holds an undefined
\* waveform code; MissingTerminator was returned
C2_Witness ==
    /\ ReadReturned
    /\ IsErr("MissingTerminator")
    /\ \E i \in 0..31 : WaveformCode(input, i) >= 6

\* C3: with the header right and body and checksum byte there, Bank::read
\* fails with ChecksumMismatch exactly when the stored byte differs from
\* checksum(body), whether or not a terminator follows, and always when the
\* stored byte has its top bit set; the error carries both values.
C3_ChecksumMismatch ==
    ReadReturned =>
        LET bytes == input
        IN  (Len(bytes) >= 4103 /\ HeaderOf(bytes) = <<240, 67, 0, 9, 32, 0>>) =>
                LET stored   == StoredChecksum(bytes)
                    computed == checksum(BodyOf(bytes))
                IN  /\ IsErr("ChecksumMismatch") <=> stored # computed
                    /\ stored >= 128 => IsErr("ChecksumMismatch")
                    /\ IsErr("ChecksumMismatch") =>
                            result.expected = stored /\ result.computed = computed

\* C3 witness: the stored byte has its top bit set, the terminator is
\* missing, and ChecksumMismatch was returned
C3_Witness ==
    /\ ReadReturned
    /\ IsErr("ChecksumMismatch")
    /\ Len(input) = 4103
    /\ StoredChecksum(input) >= 128

\* C4: checksum returns a value in 0..127 equal to (0 - sum of the bytes)
\* mod 128; checksum([]) = 0, checksum([42]) = 86, checksum([1,2,3,4,5]) = 113.
C4_Checksum ==
    (op = "checksum" /\ pc = "called") =>
        /\ result \in 0..127
        /\ result = (0 - SumBytes(arg, 1, Len(arg))) % 128
        /\ arg = <<>> => result = 0
        /\ arg = <<42>> => result = 86
        /\ arg = <<1, 2, 3, 4, 5>> => result = 113

\* C4 witness: checksum was called on [1,2,3,4,5]
C4_Witness ==
    /\ op = "checksum" /\ pc = "called"
    /\ arg = <<1, 2, 3, 4, 5>>
    /\ result = 113

\* a proper prefix of a bank that decodes
ProperPrefixOfValid(bytes) ==
    /\ Len(bytes) < 4104
    /\ \A k \in 1..6 : k <= Len(bytes) => bytes[k] = <<240, 67, 0, 9, 32, 0>>[k]
    /\ Len(bytes) >= 4103 => StoredChecksum(bytes) = LayoutChecksumOf(bytes)
    /\ \A i \in 0..31 : 6 + 128 * i + 117 <= Len(bytes) => WaveformCode(bytes, i) <= 5

\* the stage whose read a source of n < 4104 bytes cannot satisfy
StageOfLength(n) ==
    IF n < 6 THEN "header"
    ELSE IF n < 4102 THEN "body"
    ELSE IF n = 4102 THEN "checksum"
    ELSE "terminator"

\* C5: on every proper prefix of a valid bank Bank::read fails with a
\* truncation error, at the stage whose read cannot be satisfied, and returns
\* no preset; Format::is_format is false on fewer than 6 bytes.
C5_Truncation ==
    /\ ReadReturned =>
        LET bytes == input
        IN  ProperPrefixOfValid(bytes) =>
                /\ result = [kind |-> "Err", error |-> "TruncatedInput"]
                /\ pc = StageOfLength(Len(bytes))
                /\ presets = <<>>
    /\ (op = "is_format" /\ Returned /\ Len(input) < 6) =>
            result = [kind |-> "Bool", value |-> FALSE]

\* C5 witness: a bank cut just before its terminator was read
C5_Witness ==
    /\ ReadReturned
    /\ ProperPrefixOfValid(input)
    /\ Len(input) = 4103
    /\ IsErr("TruncatedInput")

\* C6: with header, checksum and terminator right, a slot whose waveform
\* code is 6 or 7 makes Bank::read fail with InvalidWaveform; the codes 0..5
\* give Triangle, SawDown, SawUp, Square, Sine, SampleAndHold.
C6_Waveform ==
    ReadReturned =>
        LET bytes == input
        IN  ContainerValid(bytes) =>
                /\ (\E i \in 0..31 : WaveformCode(bytes, i) >= 6) => IsErr("InvalidWaveform")
                /\ result.kind = "Ok" =>
                        \A i \in 0..31 :
                            /\ WaveformCode(bytes, i) <= 5
                            /\ result.presets[i + 1].lfo_waveform
                                    = WaveformNames[WaveformCode(bytes, i) + 1]

\* C6 witness: a slot holds waveform code 7 in a well-formed container
C6_Witness ==
    /\ ReadReturned
    /\ ContainerValid(input)
    /\ \E i \in 0..31 : WaveformCode(input, i) = 7
    /\ IsErr("InvalidWaveform")

Rates(e) == {e.rates[i] : i \in 1..Len(e.rates)} \cup {e.levels[i] : i \in 1..Len(e.levels)}

OperatorInRange(o) ==
    /\ Rates(o.envelope) \subseteq 0..99
    /\ o.scaling_break_point \in 0..99
    /\ o.scaling_left_depth \in 0..99
    /\ o.scaling_right_depth \in 0..99
    /\ o.output_level \in 0..99
    /\ o.frequency_fine \in 0..99
    /\ o.scaling_left_curve \in 0..3
    /\ o.scaling_right_curve \in 0..3
    /\ o.rate_scaling \in 0..7
    /\ o.velocity_sensitivity \in 0..7
    /\ o.modulation_sensitivity \in 0..3
    /\ o.frequency_course \in 0..31

PresetInRange(p) ==
    /\ p.algorithm_id \in 0..31
    /\ p.feedback_level \in 0..7
    /\ p.transpose \in 0..48
    /\ p.lfo_speed \in 0..99
    /\ p.lfo_delay \in 0..99
    /\ p.lfo_pitch_mod_depth \in 0..99
    /\ p.lfo_amplitude_mod_depth \in 0..99
    /\ Rates(p.pitch_envelope) \subseteq 0..99
    /\ Len(p.operators) = 6
    /\ \A k \in 1..6 : OperatorInRange(p.operators[k])

\* C7: raw values out of range never make Bank::read fail and are clamped:
\* a well-formed container whose waveform codes are defined decodes, and
\* every returned preset is within the ranges, a raw algorithm byte above 31
\* (45, say) giving 31.
C7_Clamped ==
    ReadReturned =>
        LET bytes == input
        IN  /\ (ContainerValid(bytes) /\ \A i \in 0..31 : WaveformCode(bytes, i) <= 5)
                    => result.kind = "Ok"
            /\ result.kind = "Ok" =>
                    \A i \in 0..31 :
                        LET raw == SlotOf(bytes, i)[111]
                        IN  /\ PresetInRange(result.presets[i + 1])
                            /\ result.presets[i + 1].algorithm_id = IF raw > 31 THEN 31 ELSE raw

\* C8: normalize is idempotent, normalizing a normalized preset returns it
\* unchanged, and normalize leaves the name, every operator's mode, the
\* waveform and the two key-sync flags as they are.
C8_Idempotent ==
    (op = "normalize" /\ Returned) =>
        /\ pc = "renormalized" => result = arg
        /\ result.name = arg.name
        /\ result.lfo_waveform = arg.lfo_waveform
        /\ result.oscillator_key_sync = arg.oscillator_key_sync
        /\ result.lfo_key_sync = arg.lfo_key_sync
        /\ \A k \in 1..6 : result.operators[k].mode = arg.operators[k].mode

\* C8 witness: a preset with two fields overwritten, one of them out of
\* range, was normalized twice
C8_Witness ==
    /\ op = "normalize" /\ pc = "renormalized"
    /\ edits = 2
    /\ result.transpose = 48
    /\ result.name = <<65, 32>>

\* C9: the default preset is within every range: normalizing it returns it
\* unchanged, the six operators and the pitch envelope included.
C9_DefaultNormalized ==
    (op = "normalize" /\ pc = "normalized" /\ edits = 0) =>
        /\ result = arg
        /\ \A k \in 1..6 : result.operators[k] = arg.operators[k]
        /\ result.pitch_envelope = arg.pitch_envelope
        /\ PresetInRange(arg)

\* C9 witness: the default preset was normalized
C9_Witness ==
    /\ op = "normalize" /\ pc = "normalized" /\ edits = 0
    /\ arg.name = <<73, 78, 73, 84, 32, 86, 79, 73, 67, 69>>
    /\ arg.transpose = 24

\* C10: for each of the 32 routing entries and each operator slot 0..5,
\* routing(slot) exists, is not empty and holds no destination twice.
C10_Routing ==
    (op = "routing" /\ Returned /\ arg.algorithm_id \in 0..31 /\ arg.operator_id \in 0..5) =>
        /\ result.some
        /\ result.value.some
        /\ Len(result.value.value) > 0
        /\ \A i, j \in 1..Len(result.value.value) :
                result.value.value[i] = result.value.value[j] => i = j

\* C10 witness: the routing of slot 5 of entry 22, four destinations
C10_Witness ==
    /\ op = "routing" /\ Returned
    /\ arg = [algorithm_id |-> 21, operator_id |-> 5]
    /\ result.some /\ result.value.some
    /\ Len(result.value.value) = 4

\* the destination list the table holds for slot `slot` of entry `id`
TableEntry(id, slot) == ALGORITHMS[id + 1][slot + 1]

\* the operator destination with the same index as the slot
OperatorOfSlot(slot) == <<Op1, Op2, Op3, Op4, Op5, Op6>>[slot + 1]

\* C11: for each of the 32 routing entries and each slot index, is_carrier
\* is true exactly when the slot exists and its destination list is the
\* one-element list [Amplifier]; slot 5 of entries 3 and 31, which route to
\* the amplifier and to an operator, and the out-of-range slot 6 are not
\* carriers.
C11_IsCarrier ==
    (op = "is_carrier" /\ Returned /\ arg.algorithm_id \in 0..31) =>
        /\ result.some
        /\ result.value = (/\ arg.operator_id \in 0..5
                           /\ TableEntry(arg.algorithm_id, arg.operator_id) = <<Amplifier>>)
        /\ (arg.algorithm_id \in {3, 31} /\ arg.operator_id = 5) => result.value = FALSE
        /\ arg.operator_id >= 6 => result.value = FALSE

\* C11 witness: slot 5 of entry 3 routes to the amplifier and to an operator
\* and is_carrier has answered for it
C11_Witness ==
    /\ op = "is_carrier" /\ Returned
    /\ arg = [algorithm_id |-> 3, operator_id |-> 5]
    /\ Len(TableEntry(3, 5)) = 2
    /\ \E i \in 1..2 : TableEntry(3, 5)[i] = Amplifier
    /\ result = Some(FALSE)

\* C12: for each of the 32 routing entries and each slot index, is_feedback
\* is true exactly when the slot is in 0..5 and its destination list holds
\* the operator destination of the same index; entry 0 has is_feedback(5)
\* true and is_feedback(0) false.
C12_IsFeedback ==
    (op = "is_feedback" /\ Returned /\ arg.algorithm_id \in 0..31) =>
        /\ result.some
        /\ result.value =
                (/\ arg.operator_id \in 0..5
                 /\ \E i \in 1..Len(TableEntry(arg.algorithm_id, arg.operator_id)) :
                        TableEntry(arg.algorithm_id, arg.operator_id)[i]
                            = OperatorOfSlot(arg.operator_id))
        /\ arg = [algorithm_id |-> 0, operator_id |-> 5] => result.value = TRUE
        /\ arg = [algorithm_id |-> 0, operator_id |-> 0] => result.value = FALSE

\* C12 witness: is_feedback has answered TRUE for slot 5 of entry 0, whose
\* destinations are slot 4 and itself
C12_Witness ==
    /\ op = "is_feedback" /\ Returned
    /\ arg = [algorithm_id |-> 0, operator_id |-> 5]
    /\ TableEntry(0, 5) = <<Op5, Op6>>
    /\ result = Some(TRUE)

\* what a name keeps of byte c: the byte without its high bit if that is a
\* printable ASCII character, a space otherwise
KeptChar(c) == IF c % 128 \in 32..126 THEN c % 128 ELSE 32

\* C13: for every byte sequence, from_lossy gives at most 10 characters, each
\* printable ASCII 0x20..0x7E, the last one not a space; character i is what
\* is kept of input byte i (i <= 10), the name ends at the last of the first
\* 10 kept characters that is not a space, leading spaces stay, and the empty
\* input gives the empty name.
C13_FromLossy ==
    (op = "from_lossy" /\ pc = "called") =>
        LET n    == IF Len(arg) < 10 THEN Len(arg) ELSE 10
            last == IF \E i \in 1..n : KeptChar(arg[i]) # 32
                    THEN CHOOSE i \in 1..n :
                            /\ KeptChar(arg[i]) # 32
                            /\ \A j \in (i + 1)..n : KeptChar(arg[j]) = 32
                    ELSE 0
        IN  /\ Len(result) <= 10
            /\ \A i \in 1..Len(result) : result[i] \in 32..126
            /\ result # <<>> => result[Len(result)] # 32
            /\ Len(result) = last
            /\ \A i \in 1..last : result[i] = KeptChar(arg[i])
            /\ arg = <<>> => result = <<>>
            /\ arg = <<65, 66, 67, 7, 100, 101, 102>>
                    => result = <<65, 66, 67, 32, 100, 101, 102>>

\* C13 witness: an input of 11 bytes whose tenth byte is a space and whose
\* eleventh is a letter: the letter is dropped, then the space is trimmed
C13_Witness ==
    /\ op = "from_lossy" /\ pc = "called"
    /\ arg = <<97, 98, 99, 100, 101, 102, 103, 104, 105, 32, 65>>
    /\ result = <<97, 98, 99, 100, 101, 102, 103, 104, 105>>

\* the 17-byte record of slot i (0..31) that lies at offset 17 * r (r in 0..5)
RecordOf(bytes, i, r) == SubSeq(SlotOf(bytes, i), 17 * r + 1, 17 * r + 17)

\* the detune bits of a record: bits 3..6 of its byte 12
DetuneBits(record) == (record[12 + 1] \div 8) % 16

\* C14: in every bank that decodes, operator k of preset i has detune
\* -((b >> 3) & 0xF), b being byte 12 of the record the operator is decoded
\* from (the record at offset 17 * (5 - k)), so that records with different
\* detune bits give different detune values.
C14_Detune ==
    (ReadReturned /\ result.kind = "Ok") =>
        LET bytes == input
        IN  \A i \in 0..31, k \in 0..5 :
                result.presets[i + 1].operators[k + 1].detune
                    = 0 - DetuneBits(RecordOf(bytes, i, 5 - k))

\* what Bank::read returns instead: every operator's detune is 0, whatever the
\* detune bits of its record are
DetuneIsZero ==
    (ReadReturned /\ result.kind = "Ok") =>
        \A i \in 0..31, k \in 0..5 : result.presets[i + 1].operators[k + 1].detune = 0

\* a bank has decoded in which two records of slot 0 differ in their detune
\* bits and neither has them all clear
DetuneBitsDiffer ==
    /\ ReadReturned /\ result.kind = "Ok"
    /\ DetuneBits(RecordOf(input, 0, 0)) # 0
    /\ DetuneBits(RecordOf(input, 0, 1)) # 0
    /\ DetuneBits(RecordOf(input, 0, 0)) # DetuneBits(RecordOf(input, 0, 1))

Min(a, b) == IF a < b THEN a ELSE b

\* C15: in every decoded preset the operators are in reverse of their
\* physical order: operators[k] is what the record at offset 17 * (5 - k)
\* decodes to, so the record at offset 85 gives operator 0 and the record at
\* offset 0 gives operator 5.
C15_ReverseOrder ==
    (ReadReturned /\ result.kind = "Ok") =>
        LET bytes == input
        IN  \A i \in 0..31, k \in 0..5 :
                LET operator == result.presets[i + 1].operators[k + 1]
                    record   == RecordOf(bytes, i, 5 - k)
                IN  /\ operator = Operator_normalize(DecodeOperator(record, 0))
                    /\ operator.scaling_break_point = Min(record[8 + 1], 99)
                    /\ operator.output_level = Min(record[14 + 1], 99)
                    /\ operator.frequency_fine = Min(record[16 + 1], 99)
                    /\ operator.rate_scaling = record[12 + 1] % 8

\* C15 witness: a bank has decoded whose slot 0 has output level 65 in the
\* record at offset 85 and 154 in the record at offset 0; operator 0 has
\* level 65 and operator 5 the clamped 99
C15_Witness ==
    /\ ReadReturned /\ result.kind = "Ok"
    /\ RecordOf(input, 0, 5)[14 + 1] = 65
    /\ RecordOf(input, 0, 0)[14 + 1] = 154
    /\ result.presets[1].operators[1].output_level = 65
    /\ result.presets[1].operators[6].output_level = 99

\* the oscillator-key-sync bit of slot i: bit 3 of its byte 111
KeySyncBit(bytes, i) == (SlotOf(bytes, i)[111 + 1] \div 8) % 2

\* C17: for every bank that decodes and every slot, oscillator_key_sync is
\* true exactly when bit 3 (mask 0x08) of slot byte 111 is set, whatever the
\* feedback level in the low three bits is.
C17_KeySync ==
    (ReadReturned /\ result.kind = "Ok") =>
        LET bytes == input
        IN  \A i \in 0..31 :
                result.presets[i + 1].oscillator_key_sync = (KeySyncBit(bytes, i) = 1)

\* what Bank::read returns instead: the flag is false in every preset
KeySyncIsFalse ==
    (ReadReturned /\ result.kind = "Ok") =>
        \A i \in 0..31 : result.presets[i + 1].oscillator_key_sync = FALSE

\* a bank has decoded in which the key-sync bit of some slot is set
KeySyncBitSet ==
    /\ ReadReturned /\ result.kind = "Ok"
    /\ \E i \in 0..31 : KeySyncBit(input, i) = 1

\* the operator slots other than `slot` that a destination list names
OtherSlots(routing, slot) ==
    {t \in 0..5 : t # slot /\ \E i \in 1..Len(routing) : routing[i] = OperatorOfSlot(t)}

\* the routing edges of entry id that leave slot s for another slot
Successors(id, s) ==
    OtherSlots(Algorithm_routing(Algorithms_get(id).value, s).value, s)

RECURSIVE ReachableFrom(_, _, _)
\* the slots reached from the set S of slots in at most n further edges
ReachableFrom(id, S, n) ==
    IF n = 0 THEN S
    ELSE ReachableFrom(id, S \cup UNION {Successors(id, s) : s \in S}, n - 1)

\* C16: each of the 32 routing graphs is acyclic apart from self-loops: no
\* path of edges between distinct slots leads from a slot back to it, and
\* from every slot the amplifier is reached by following destinations.
C16_Acyclic ==
    (op = "routing" /\ Returned /\ arg.algorithm_id \in 0..31 /\ arg.operator_id \in 0..5) =>
        LET id      == arg.algorithm_id
            slot    == arg.operator_id
            reached == ReachableFrom(id, OtherSlots(result.value.value, slot), 5)
        IN  /\ slot \notin reached
            /\ \E t \in reached \cup {slot} :
                    Contains(Algorithm_routing(Algorithms_get(id).value, t).value, Amplifier)

\* C16 witness: routing has answered for slot 5 of entry 0, which feeds itself
\* and slot 4, from where slots 3 and 2 are reached, the latter a carrier
C16_Witness ==
    /\ op = "routing" /\ Returned
    /\ arg = [algorithm_id |-> 0, operator_id |-> 5]
    /\ result = Some(Some(<<Op5, Op6>>))
    /\ ReachableFrom(0, {4}, 5) = {4, 3, 2}
    /\ Algorithm_routing(Algorithms_get(0).value, 2).value = <<Amplifier>>

====
